---- MODULE Spec2Model ----
(***************************************************************************)
(* A model of spooled-fs (src/sfs_files.hpp, src/main.cpp): the regular    *)
(* file classes MemoryFile, DiskFile and SpoolFile behind the IOFile       *)
(* interface, the scratch directory the DiskFile objects share, the        *)
(* BufferViews their reads return, the directory class DirFile and the     *)
(* request handlers on the inode table.                                    *)
(*                                                                         *)
(* Modelling decisions:                                                    *)
(*  - assert() is compiled in (no NDEBUG): a failed assertion aborts the   *)
(*    process (proc = "aborted") and nothing runs afterwards.              *)
(*  - the scratch directory is writable and the medium never fails, so     *)
(*    fopen("wb"), fwrite, fseek and fclose succeed; fopen("rb+") fails    *)
(*    exactly when the name does not exist.                                *)
(*  - a file on the medium is an inode (an index into fs.data); a name in  *)
(*    the scratch directory maps to an inode or to 0 (absent); a FILE* is  *)
(*    the inode it was opened on (0 is nullptr), so that a handle outlives *)
(*    the removal of its name, as it does on POSIX.                        *)
(*  - offsets and sizes are small naturals: off_t/size_t never wrap here.  *)
(*  - a constructor is given either nullptr (with size 0) or a buffer of   *)
(*    exactly size bytes.                                                  *)
(***************************************************************************)
EXTENDS Integers, Sequences, FiniteSets, TLC

VARIABLES
    files,       \* object id -> the IOFile object living there (or Null)
    fs,          \* the scratch directory: [names, data]
    proc,        \* "running" | "aborted" (a failed assert)
    ret,         \* what the last completed call returned
    ref,         \* history: object id -> reference content of all writes so far
    promotions,  \* history: object id -> times the promotion block has run
    mt,          \* the request threads of SpecMT: [th, freed, uaf, init]
    heap,        \* the read buffers: [allocs, views]
    reply,       \* the last request handled and the replies its handler sent
    session      \* history: SpoolFile id -> "closed" | "open" | "misused"

vars == <<files, fs, proc, ret, ref, promotions, mt, heap, reply, session>>

----------------------------------------------------------------------------
(* Bounds of the model *)

MaxLen == 2      \* longest buffer handed to a write or a constructor
MaxOff == 2      \* largest small offset handed to a write or a read

(* Program constants *)

DefaultSpoolSize == 1024   \* size_t spool_size = 1024
TestSpoolSize == 3         \* z.spool_size = 3
ALL == -1                  \* read(-1, 0): the "whole file" size

\* The code copies bytes and never inspects them; the only byte it makes up
\* itself is the zero of a gap. Two values, the zero byte and one other, tell
\* every misplaced, lost or made-up byte apart.
Byte == {0, 1}

BoundedSeq(S, n) == UNION {[1..k -> S] : k \in 0..n}

Bufs == BoundedSeq(Byte, MaxLen)

Min(a, b) == IF a < b THEN a ELSE b

Max(a, b) == IF a > b THEN a ELSE b

Zeros(n) == [i \in 1..n |-> 0]

----------------------------------------------------------------------------
(* The scratch directory *)

Paths == {"/hello", "/hello1", "/hello2"}

\* temp_directory_path() / to_string(hash_value(fuse_path)): equal paths give
\* equal names, and hash_value is not injective; "/hello1" and "/hello2" stand
\* for a pair of distinct logical paths with the same hash.
ScratchName(path) ==
    CASE path = "/hello" -> "tmp/h1"
      [] path = "/hello1" -> "tmp/h2"
      [] path = "/hello2" -> "tmp/h2"

ScratchNames == {ScratchName(p) : p \in Paths}

EmptyFs == [names |-> [n \in ScratchNames |-> 0], data |-> <<>>]

\* std::filesystem::remove(p): unlinks the name if it exists
fs_remove(d, p) == [d EXCEPT !.names[p] = 0]

fs_exists(d, p) == d.names[p] # 0

\* std::fopen(p, "wb"): truncate the existing file or create a new one
fopen_wb(d, p) ==
    IF d.names[p] # 0
    THEN [fs |-> [d EXCEPT !.data[d.names[p]] = <<>>], fh |-> d.names[p]]
    ELSE [fs |-> [names |-> [d.names EXCEPT ![p] = Len(d.data) + 1],
                  data |-> Append(d.data, <<>>)],
          fh |-> Len(d.data) + 1]

\* std::fopen(p, "rb+"): NULL (0) when the name does not exist
fopen_rbplus(d, p) == d.names[p]

\* std::fwrite of buf at stream position pos: nothing for an empty buf; a
\* position past the end leaves a hole that reads as zero bytes
fwrite(data, pos, buf) ==
    IF Len(buf) = 0 THEN data
    ELSE LET base == IF pos > Len(data) THEN data \o Zeros(pos - Len(data)) ELSE data
             newlen == Max(Len(base), pos + Len(buf))
         IN [i \in 1..newlen |->
                IF i > pos /\ i <= pos + Len(buf) THEN buf[i - pos] ELSE base[i]]

\* std::fread of up to size bytes at stream position pos
fread(data, pos, size) ==
    SubSeq(data, pos + 1, pos + Min(size, Max(0, Len(data) - pos)))

----------------------------------------------------------------------------
(* What a call hands back: the object and medium after it, whether an      *)
(* assertion failed, the returned count, and for a read the BufferView     *)
(* (buf, n, owns = _delete_on_destroy).                                    *)

Res(f, d, abort, n, buf, owns, promoted) ==
    [f |-> f, fs |-> d, abort |-> abort, n |-> n, buf |-> buf, owns |-> owns,
     promoted |-> promoted]

Null == [cls |-> "null"]

NullInit == [isnull |-> TRUE, data |-> <<>>]

BufInit(s) == [isnull |-> FALSE, data |-> s]

----------------------------------------------------------------------------
(* MemoryFile *)

MemoryFile_ctor(path, init) ==
    [cls |-> "MemoryFile", path |-> path, st_size |-> Len(init.data),
     blob |-> init.data]

\* std::string::replace(off, n, buf, n) with off + n <= size()
blob_replace(s, off, b) ==
    [i \in 1..Len(s) |-> IF i > off /\ i <= off + Len(b) THEN b[i - off] ELSE s[i]]

MemoryFile_write(m, d, buf, off) ==
    LET size == Len(buf)
        L == Len(m.blob)
    IN IF off < L
       THEN IF off + size <= L
            THEN Res([m EXCEPT !.blob = blob_replace(@, off, buf)],
                     d, FALSE, size, <<>>, FALSE, FALSE)
            ELSE LET first_chunk_size == L - off
                     second_chunk_size == size - first_chunk_size
                 IN Res([m EXCEPT
                            !.blob = blob_replace(@, off, SubSeq(buf, 1, first_chunk_size))
                                     \o SubSeq(buf, first_chunk_size + 1, size),
                            !.st_size = @ + second_chunk_size],
                        d, FALSE, size, <<>>, FALSE, FALSE)
       ELSE LET new_zeros_size == off - L
            IN Res([m EXCEPT !.blob = @ \o Zeros(new_zeros_size) \o buf,
                             !.st_size = @ + (new_zeros_size + size)],
                   d, FALSE, size, <<>>, FALSE, FALSE)

\* The view is _blob.c_str() + off for size bytes: the blob, then its
\* terminating zero, then whatever lies behind it (junk: reading there is
\* undefined, any bytes may come back).
MemoryFile_read(m, d, size, off, junk) ==
    LET size1 == IF size = ALL THEN Len(m.blob) ELSE size
        off1 == IF size = ALL THEN 0 ELSE off
        L == Len(m.blob)
        at(p) == IF p <= L THEN m.blob[p]
                 ELSE IF p = L + 1 THEN 0
                 ELSE junk[((p - L - 2) % Len(junk)) + 1]
    IN Res(m, d, FALSE, size1, [i \in 1..size1 |-> at(off1 + i)], FALSE, FALSE)

----------------------------------------------------------------------------
(* DiskFile *)

\* (mutant) the overlap with the existing bytes is not subtracted
DiskFile_new_bytes_no_overlap(file_size, size, off) ==
    IF off < file_size
    THEN IF off + size <= file_size THEN 0
         ELSE size
    ELSE off - file_size + size

\* the bytes a write adds to st_size
DiskFile_new_bytes(file_size, size, off) ==
    IF off < file_size
    THEN IF off + size <= file_size THEN 0
         ELSE size - (file_size - off)
    ELSE off - file_size + size

DiskFile_write(f, d, buf, off) ==
    IF f.fh = 0 THEN Res(f, d, TRUE, 0, <<>>, FALSE, FALSE)
    ELSE LET size == Len(buf)
             file_size == f.st_size
             new_bytes == DiskFile_new_bytes(file_size, size, off)
             pos == IF f.current_offset # 0 \/ off # 0 THEN off ELSE f.fpos
         IN Res([f EXCEPT !.st_size = @ + new_bytes,
                          !.current_offset = off + size,
                          !.fpos = pos + size],
                [d EXCEPT !.data[f.fh] = fwrite(@, pos, buf)],
                FALSE, size, <<>>, FALSE, FALSE)

DiskFile_close(f, d) ==
    IF f.fh = 0 THEN Res(f, d, TRUE, 0, <<>>, FALSE, FALSE)
    ELSE Res([f EXCEPT !.fh = 0, !.current_offset = 0, !.fpos = 0],
             d, FALSE, 0, <<>>, FALSE, FALSE)

DiskFile_open(f, d) ==
    IF f.fh # 0 THEN Res(f, d, TRUE, 0, <<>>, FALSE, FALSE)
    ELSE LET h == fopen_rbplus(d, f.disk_path)
         IN Res([f EXCEPT !.fh = h, !.fpos = 0], d, h = 0, 0, <<>>, FALSE, FALSE)

DiskFile_read(f, d, size, off) ==
    IF f.fh = 0 THEN Res(f, d, TRUE, 0, <<>>, FALSE, FALSE)
    ELSE LET size1 == IF size = ALL THEN f.st_size ELSE size
             off1 == IF size = ALL THEN 0 ELSE off
             pos == IF f.current_offset # 0 \/ off1 # 0 THEN off1 ELSE f.fpos
             buf == fread(d.data[f.fh], pos, size1)
             nbytes == Len(buf)
         IN Res([f EXCEPT !.current_offset = off1 + nbytes, !.fpos = pos + nbytes],
                d, nbytes = 0, nbytes, buf, TRUE, FALSE)

DiskFile_ctor(path, init, d) ==
    LET p == ScratchName(path)
        o == fopen_wb(fs_remove(d, p), p)
        f0 == [cls |-> "DiskFile", path |-> path, st_size |-> 0, fh |-> o.fh,
               fpos |-> 0, disk_path |-> p, current_offset |-> 0]
        w == IF ~init.isnull THEN DiskFile_write(f0, o.fs, init.data, 0)
             ELSE Res(f0, o.fs, FALSE, 0, <<>>, FALSE, FALSE)
    IN IF w.abort THEN w ELSE DiskFile_close(w.f, w.fs)

DiskFile_dtor(f, d) == fs_remove(d, f.disk_path)

----------------------------------------------------------------------------
(* SpoolFile *)

\* _strategy->write / read / open / close: the virtual call on the inner
\* strategy, which is a MemoryFile or a DiskFile
Strategy_write(f, d, buf, off) ==
    IF f.cls = "DiskFile" THEN DiskFile_write(f, d, buf, off)
    ELSE MemoryFile_write(f, d, buf, off)

Strategy_read(f, d, size, off, junk) ==
    IF f.cls = "DiskFile" THEN DiskFile_read(f, d, size, off)
    ELSE MemoryFile_read(f, d, size, off, junk)

\* IOFile::open() {} and IOFile::close() {} are what a MemoryFile inherits
Strategy_open(f, d) ==
    IF f.cls = "DiskFile" THEN DiskFile_open(f, d)
    ELSE Res(f, d, FALSE, 0, <<>>, FALSE, FALSE)

Strategy_close(f, d) ==
    IF f.cls = "DiskFile" THEN DiskFile_close(f, d)
    ELSE Res(f, d, FALSE, 0, <<>>, FALSE, FALSE)

SpoolFile_ctor(path, init, d) ==
    LET size == Len(init.data)
        base == [cls |-> "SpoolFile", path |-> path, st_size |-> size,
                 spool_size |-> DefaultSpoolSize]
    IN IF size > DefaultSpoolSize
       THEN LET c == DiskFile_ctor(path, init, d)
            IN Res(base @@ [strategy |-> c.f, spooled |-> TRUE],
                   c.fs, c.abort, 0, <<>>, FALSE, FALSE)
       ELSE Res(base @@ [strategy |-> MemoryFile_ctor(path, init), spooled |-> FALSE],
                d, FALSE, 0, <<>>, FALSE, FALSE)

\* the block of SpoolFile::write that moves the content to a new DiskFile
SpoolFile_promote(s, d) ==
    LET view == Strategy_read(s.strategy, d, ALL, 0, <<0>>)
        c == DiskFile_ctor(s.strategy.path,
                           BufInit(SubSeq(view.buf, 1, view.n)), view.fs)
        o == DiskFile_open(c.f, c.fs)
    IN IF view.abort
       THEN Res([s EXCEPT !.strategy = view.f], view.fs, TRUE, 0, <<>>, FALSE, TRUE)
       ELSE IF c.abort
       THEN Res(s, c.fs, TRUE, 0, <<>>, FALSE, TRUE)
       ELSE Res([s EXCEPT !.strategy = o.f, !.spooled = TRUE],
                o.fs, o.abort, 0, <<>>, FALSE, TRUE)

\* (mutant) the flag is not consulted
SpoolFile_must_promote_no_flag(s) ==
    s.strategy.st_size > s.spool_size

\* (mutant) the SpoolFile's own size is compared, not the strategy's
SpoolFile_must_promote_own_size(s) ==
    ~s.spooled /\ s.st_size > s.spool_size

\* if (!_spooled && _strategy->get_size() > spool_size)
SpoolFile_must_promote(s) ==
    ~s.spooled /\ s.strategy.st_size > s.spool_size

SpoolFile_write(s, d, buf, off) ==
    LET w == Strategy_write(s.strategy, d, buf, off)
        s1 == [s EXCEPT !.strategy = w.f]
    IN IF w.abort THEN Res(s1, w.fs, TRUE, 0, <<>>, FALSE, FALSE)
       ELSE IF SpoolFile_must_promote(s1)
       THEN LET p == SpoolFile_promote(s1, w.fs)
            IN Res(p.f, p.fs, p.abort, w.n, <<>>, FALSE, TRUE)
       ELSE Res(s1, w.fs, FALSE, w.n, <<>>, FALSE, FALSE)

SpoolFile_read(s, d, size, off, junk) ==
    LET r == Strategy_read(s.strategy, d, size, off, junk)
    IN Res([s EXCEPT !.strategy = r.f], r.fs, r.abort, r.n, r.buf, r.owns, FALSE)

SpoolFile_open(s, d) ==
    LET r == Strategy_open(s.strategy, d)
    IN Res([s EXCEPT !.strategy = r.f], r.fs, r.abort, 0, <<>>, FALSE, FALSE)

SpoolFile_close(s, d) ==
    LET r == Strategy_close(s.strategy, d)
    IN Res([s EXCEPT !.strategy = r.f], r.fs, r.abort, 0, <<>>, FALSE, FALSE)

----------------------------------------------------------------------------
(* The IOFile interface: the virtual call on an object of any class *)

IOFile_write(f, d, buf, off) ==
    IF f.cls = "SpoolFile" THEN SpoolFile_write(f, d, buf, off)
    ELSE Strategy_write(f, d, buf, off)

IOFile_read(f, d, size, off, junk) ==
    IF f.cls = "SpoolFile" THEN SpoolFile_read(f, d, size, off, junk)
    ELSE Strategy_read(f, d, size, off, junk)

IOFile_open(f, d) ==
    IF f.cls = "SpoolFile" THEN SpoolFile_open(f, d) ELSE Strategy_open(f, d)

IOFile_close(f, d) ==
    IF f.cls = "SpoolFile" THEN SpoolFile_close(f, d) ELSE Strategy_close(f, d)

IOFile_ctor(cls, path, init, d) ==
    CASE cls = "MemoryFile" ->
            Res(MemoryFile_ctor(path, init), d, FALSE, 0, <<>>, FALSE, FALSE)
      [] cls = "DiskFile" -> DiskFile_ctor(path, init, d)
      [] cls = "SpoolFile" -> SpoolFile_ctor(path, init, d)

\* BaseFile::get_size(): not virtual, the object's own st_size
get_size(f) == f.st_size

\* the object that holds the content: the inner strategy of a SpoolFile
Backend(f) == IF f.cls = "SpoolFile" THEN f.strategy ELSE f

----------------------------------------------------------------------------
(* The reference content: each write overlays [off, off+size), a gap before *)
(* it is zero bytes.                                                        *)

RefWrite(c, buf, off) ==
    LET base == IF off > Len(c) THEN c \o Zeros(off - Len(c)) ELSE c
        newlen == Max(Len(base), off + Len(buf))
    IN [i \in 1..newlen |->
           IF i > off /\ i <= off + Len(buf) THEN buf[i - off] ELSE base[i]]

----------------------------------------------------------------------------
(* Actions: one call on the object with id o *)

Live(o) == proc = "running" /\ files[o].cls \notin {"null", "destroyed"}

\* ret: the call (op, obj, its size and off arguments, the size the backend
\* reported when it was made) and what it returned (abort: it did not
\* return, an assertion failed; n: the count; buf, owns: the BufferView)
Returned(op, o, size, off, r) ==
    [op |-> op, obj |-> o, size |-> size, off |-> off,
     size0 |-> get_size(Backend(files[o])),
     abort |-> r.abort, n |-> r.n, buf |-> r.buf, owns |-> r.owns]

NoRet == [op |-> "none", obj |-> 0, size |-> 0, off |-> 0, size0 |-> 0,
          abort |-> FALSE, n |-> 0, buf |-> <<>>, owns |-> FALSE]

\* the session of a SpoolFile as its caller sees it: open() and close() are
\* meant to alternate, starting with open(); any other order is a misuse
SessionAfter(cls, st, op, abort) ==
    CASE abort \/ cls # "SpoolFile" -> st
      [] op = "open" -> IF st = "closed" THEN "open" ELSE "misused"
      [] op = "close" -> IF st = "open" THEN "closed" ELSE "misused"
      [] OTHER -> st

Apply(op, o, size, off, r) ==
    /\ files' = [files EXCEPT ![o] = r.f]
    /\ fs' = r.fs
    /\ proc' = IF r.abort THEN "aborted" ELSE "running"
    /\ ret' = Returned(op, o, size, off, r)
    /\ session' = [session EXCEPT
                       ![o] = SessionAfter(files[o].cls, @, op, r.abort)]
    /\ UNCHANGED mt

Open(o) ==
    /\ Live(o)
    /\ Apply("open", o, 0, 0, IOFile_open(files[o], fs))
    /\ UNCHANGED <<ref, promotions, heap, reply>>

Close(o) ==
    /\ Live(o)
    /\ Apply("close", o, 0, 0, IOFile_close(files[o], fs))
    /\ UNCHANGED <<ref, promotions, heap, reply>>

Write(o, buf, off) ==
    /\ Live(o)
    /\ LET r == IOFile_write(files[o], fs, buf, off)
       IN /\ Apply("write", o, Len(buf), off, r)
          /\ ref' = IF r.abort THEN ref
                    ELSE [ref EXCEPT ![o] = RefWrite(@, buf, off)]
          /\ promotions' = IF r.promoted
                           THEN [promotions EXCEPT ![o] = @ + 1]
                           ELSE promotions
    /\ UNCHANGED <<heap, reply>>

\* the bytes behind the blob that a read past its end may hand back
Junks(o, size, off) ==
    IF /\ Backend(files[o]).cls = "MemoryFile"
       /\ size # ALL
       /\ off + size > Len(Backend(files[o]).blob) + 1
    THEN [1..(off + size - Len(Backend(files[o]).blob) - 1) -> Byte]
    ELSE {<<0>>}

Read(o, size, off) ==
    /\ Live(o)
    /\ \E junk \in Junks(o, size, off) :
          Apply("read", o, size, off, IOFile_read(files[o], fs, size, off, junk))
    /\ UNCHANGED <<ref, promotions, heap, reply>>

\* z.spool_size = 3: the threshold is a public field
SetSpoolSize(o, t) ==
    /\ Live(o)
    /\ files[o].cls = "SpoolFile"
    /\ files[o].spool_size # t
    /\ files' = [files EXCEPT ![o].spool_size = t]
    /\ ret' = [NoRet EXCEPT !.op = "spool_size", !.obj = o]
    /\ UNCHANGED <<fs, proc, ref, promotions, mt, heap, reply, session>>

----------------------------------------------------------------------------
(* Spec: one MemoryFile or one DiskFile, driven through the IOFile          *)
(* interface as test_io_file drives it.                                    *)

Offs == 0..MaxOff

ReadSizes == {ALL, 0, 1}

\* what a constructor is given: nullptr or a short buffer
InitArgs == {NullInit} \cup {BufInit(s) : s \in Bufs}

\* no request handled yet
NoReply == [handler |-> "none", ino |-> 0, name |-> "", sent |-> <<>>]

\* no read buffer allocated, no BufferView alive
NoHeap == [allocs |-> <<>>, views |-> <<>>]

\* no request threads: the calls of one thread, one after the other
NoThreads == [th |-> <<>>, freed |-> {}, uaf |-> FALSE, init |-> NullInit]

\* the state after  cls x("/hello", 15, S_IFREG | 0666, buf, size)
Constructed(cls, init) ==
    LET c == IOFile_ctor(cls, "/hello", init, EmptyFs)
    IN /\ files = <<c.f>>
       /\ fs = c.fs
       /\ proc = "running"
       /\ ret = NoRet
       /\ ref = <<init.data>>
       /\ promotions = <<0>>
       /\ mt = NoThreads
       /\ heap = NoHeap
       /\ reply = NoReply
       /\ session = <<"closed">>

Init ==
    \E cls \in {"MemoryFile", "DiskFile"} : \E init \in InitArgs :
        Constructed(cls, init)

Next ==
    \/ Open(1)
    \/ Close(1)
    \/ \E buf \in Bufs, off \in Offs : Write(1, buf, off)
    \/ \E size \in ReadSizes, off \in Offs : Read(1, size, off)

Spec == Init /\ [][Next]_vars

----------------------------------------------------------------------------
(* SpecSpool: one SpoolFile with short content, its threshold lowered to 3  *)
(* at some point as the test does.                                          *)

InitSpool == \E init \in InitArgs : Constructed("SpoolFile", init)

NextSpool ==
    \/ Open(1)
    \/ Close(1)
    \/ \E buf \in Bufs, off \in Offs : Write(1, buf, off)
    \/ \E size \in ReadSizes, off \in Offs : Read(1, size, off)
    \/ SetSpoolSize(1, TestSpoolSize)

SpecSpool == InitSpool /\ [][NextSpool]_vars

----------------------------------------------------------------------------
(* SpecDefault: one SpoolFile around its default threshold of 1024 bytes:   *)
(* constructed below it or above it, written at its edge.                   *)

EdgeBufs == {<<>>, <<1>>}

EdgeOffs == {0, DefaultSpoolSize, DefaultSpoolSize + 2}

EdgeInitArgs == {NullInit, BufInit(<<1>>), BufInit(Zeros(DefaultSpoolSize + 1))}

InitDefault == \E init \in EdgeInitArgs : Constructed("SpoolFile", init)

NextDefault ==
    \/ Open(1)
    \/ Close(1)
    \/ \E buf \in EdgeBufs, off \in EdgeOffs : Write(1, buf, off)
    \/ \E off \in EdgeOffs : Read(1, ALL, off)
    \/ SetSpoolSize(1, TestSpoolSize)

SpecDefault == InitDefault /\ [][NextDefault]_vars

----------------------------------------------------------------------------
(* SpecMT: fuse_session_loop_mt runs two requests on the same SpoolFile on  *)
(* two threads, and no handler takes a lock. files is the heap: files[1]    *)
(* is the SpoolFile, whose strategy field is here the address _strategy     *)
(* holds, files[2] the MemoryFile it starts with, files[2 + t] the DiskFile *)
(* thread t allocates. mt.freed are the addresses already deleted; a call   *)
(* through one of them is undefined: it may crash or run on the stale       *)
(* object, and mt.uaf records that it happened. The calls on the inner      *)
(* strategy are taken as single steps; SpoolFile::write is a step per       *)
(* statement.                                                               *)

Threads == {1, 2}

MtBufs == {<<1>>, <<1, 1>>}

MtOffs == {0, TestSpoolSize}

Requests ==
    {[op |-> "write", buf |-> b, size |-> Len(b), off |-> o] :
        b \in MtBufs, o \in MtOffs}
    \cup {[op |-> "read", buf |-> <<>>, size |-> ALL, off |-> 0]}

NoView == [src |-> 0, buf |-> <<>>, n |-> 0, owns |-> FALSE]

ThreadStart(req) ==
    [pc |-> IF req.op = "write" THEN "write_inner" ELSE "read_inner",
     req |-> req, view |-> NoView, n |-> 0, buf |-> <<>>]

InitMT ==
    \E init \in InitArgs : \E r1 \in Requests : \E r2 \in Requests :
        /\ r1.op = "write"
        /\ files = <<[cls |-> "SpoolFile", path |-> "/hello",
                      st_size |-> Len(init.data),
                      spool_size |-> TestSpoolSize, strategy |-> 2,
                      spooled |-> FALSE],
                     MemoryFile_ctor("/hello", init), Null, Null>>
        /\ fs = EmptyFs
        /\ proc = "running"
        /\ ret = NoRet
        /\ ref = <<init.data>>
        /\ promotions = <<0>>
        /\ mt = [th |-> <<ThreadStart(r1), ThreadStart(r2)>>, freed |-> {},
                 uaf |-> FALSE, init |-> init]
        /\ heap = NoHeap
        /\ reply = NoReply
        /\ session = <<"closed">>

At(t, pc) == proc = "running" /\ mt.th[t].pc = pc

\* a call through address a: fine if a is live; if a was deleted it either
\* crashes or goes on with the stale object
Deref(a, crash) ==
    /\ (a \notin mt.freed) => ~crash
    /\ proc' = IF crash THEN "aborted" ELSE proc

Used(a) == mt.uaf \/ a \in mt.freed

\* size_t nbytes = _strategy->write(buf, size, off);
MT_WriteInner(t) ==
    /\ At(t, "write_inner")
    /\ LET a == files[1].strategy
           r == Strategy_write(files[a], fs, mt.th[t].req.buf, mt.th[t].req.off)
       IN \E crash \in BOOLEAN :
            /\ (a \notin mt.freed) => ~crash
            /\ proc' = IF crash \/ r.abort THEN "aborted" ELSE "running"
            /\ files' = IF crash THEN files ELSE [files EXCEPT ![a] = r.f]
            /\ fs' = IF crash THEN fs ELSE r.fs
            /\ mt' = [mt EXCEPT !.uaf = Used(a),
                                !.th[t].n = r.n,
                                !.th[t].pc = "check"]
    /\ UNCHANGED <<ret, ref, promotions, heap, reply, session>>

\* if (!_spooled && _strategy->get_size() > spool_size)
MT_Check(t) ==
    /\ At(t, "check")
    /\ LET a == files[1].strategy
           s == [files[1] EXCEPT !.strategy = files[a]]
           b == IF files[1].spooled THEN 0 ELSE a   \* && short-circuits
       IN \E crash \in BOOLEAN :
            /\ Deref(b, crash)
            /\ mt' = [mt EXCEPT !.uaf = Used(b),
                                !.th[t].pc = IF SpoolFile_must_promote(s)
                                             THEN "view" ELSE "return"]
    /\ UNCHANGED <<files, fs, ret, ref, promotions, heap, reply, session>>

\* IOFile::BufferView view = _strategy->read(-1, 0);
MT_View(t) ==
    /\ At(t, "view")
    /\ LET a == files[1].strategy
           r == Strategy_read(files[a], fs, ALL, 0, <<0>>)
       IN \E crash \in BOOLEAN :
            /\ (a \notin mt.freed) => ~crash
            /\ proc' = IF crash \/ r.abort THEN "aborted" ELSE "running"
            /\ files' = IF crash THEN files ELSE [files EXCEPT ![a] = r.f]
            /\ mt' = [mt EXCEPT !.uaf = Used(a),
                                !.th[t].view = [src |-> a, buf |-> r.buf,
                                                n |-> r.n, owns |-> r.owns],
                                !.th[t].pc = "new"]
    /\ promotions' = [promotions EXCEPT ![1] = @ + 1]
    /\ UNCHANGED <<fs, ret, ref, heap, reply, session>>

\* the bytes behind a view when the constructor copies them: an owned view
\* keeps its bytes; a borrowed one aliases the blob, so it shows the bytes of
\* the read or, where the blob was since rewritten in place, the current
\* ones, and any bytes at all once the blob's owner was deleted
ViewBytes(v) ==
    {SubSeq(v.buf, 1, v.n)}
    \cup (IF ~v.owns /\ files[v.src].cls = "MemoryFile"
             /\ Len(files[v.src].blob) >= v.n
          THEN {SubSeq(files[v.src].blob, 1, v.n)} ELSE {})
    \cup (IF ~v.owns /\ v.src \in mt.freed THEN [1..v.n -> Byte] ELSE {})

\* IOFile *new_strategy = new DiskFile(_strategy->get_fuse_path(), ...,
\*                                     view.get_buf(), view.get_size());
MT_New(t) ==
    /\ At(t, "new")
    /\ \E data \in ViewBytes(mt.th[t].view) :
          LET c == DiskFile_ctor(files[1].path, BufInit(data), fs)
          IN /\ files' = [files EXCEPT ![2 + t] = c.f]
             /\ fs' = c.fs
             /\ proc' = IF c.abort THEN "aborted" ELSE "running"
    /\ mt' = [mt EXCEPT !.uaf = IF mt.th[t].view.owns THEN mt.uaf
                                ELSE Used(mt.th[t].view.src),
                        !.th[t].pc = "open"]
    /\ UNCHANGED <<ret, ref, promotions, heap, reply, session>>

\* new_strategy->open();
MT_Open(t) ==
    /\ At(t, "open")
    /\ LET r == DiskFile_open(files[2 + t], fs)
       IN /\ files' = [files EXCEPT ![2 + t] = r.f]
          /\ fs' = r.fs
          /\ proc' = IF r.abort THEN "aborted" ELSE "running"
    /\ mt' = [mt EXCEPT !.th[t].pc = "delete"]
    /\ UNCHANGED <<ret, ref, promotions, heap, reply, session>>

\* delete _strategy;  through an IOFile* without a virtual destructor, so it
\* is undefined whether ~DiskFile runs for a DiskFile; deleting an address
\* twice is undefined as well
MT_Delete(t) ==
    /\ At(t, "delete")
    /\ LET a == files[1].strategy
       IN \E crash \in BOOLEAN, dtor \in BOOLEAN :
            /\ Deref(a, crash)
            /\ (files[a].cls # "DiskFile") => ~dtor
            /\ fs' = IF dtor /\ ~crash THEN DiskFile_dtor(files[a], fs) ELSE fs
            /\ mt' = [mt EXCEPT !.uaf = Used(a),
                                !.freed = @ \cup {a},
                                !.th[t].pc = "assign"]
    /\ UNCHANGED <<files, ret, ref, promotions, heap, reply, session>>

\* SpoolFile::write without `_strategy = new_strategy;`
MT_Assign_forgotten(t) ==
    /\ At(t, "assign")
    /\ mt' = [mt EXCEPT !.th[t].pc = "flag"]
    /\ UNCHANGED <<files, fs, proc, ret, ref, promotions, heap, reply, session>>

\* _strategy = new_strategy;
MT_Assign(t) ==
    /\ At(t, "assign")
    /\ files' = [files EXCEPT ![1].strategy = 2 + t]
    /\ mt' = [mt EXCEPT !.th[t].pc = "flag"]
    /\ UNCHANGED <<fs, proc, ret, ref, promotions, heap, reply, session>>

\* _spooled = true;
MT_Flag(t) ==
    /\ At(t, "flag")
    /\ files' = [files EXCEPT ![1].spooled = TRUE]
    /\ mt' = [mt EXCEPT !.th[t].pc = "return"]
    /\ UNCHANGED <<fs, proc, ret, ref, promotions, heap, reply, session>>

\* return nbytes;  and sfs_write replies
MT_Return(t) ==
    /\ At(t, "return")
    /\ mt' = [mt EXCEPT !.th[t].pc = "done"]
    /\ UNCHANGED <<files, fs, proc, ret, ref, promotions, heap, reply, session>>

\* return _strategy->read(size, off);  and sfs_read replies
MT_ReadInner(t) ==
    /\ At(t, "read_inner")
    /\ LET a == files[1].strategy
           r == Strategy_read(files[a], fs, mt.th[t].req.size,
                              mt.th[t].req.off, <<0>>)
       IN \E crash \in BOOLEAN :
            /\ (a \notin mt.freed) => ~crash
            /\ proc' = IF crash \/ r.abort THEN "aborted" ELSE "running"
            /\ files' = IF crash THEN files ELSE [files EXCEPT ![a] = r.f]
            /\ mt' = [mt EXCEPT !.uaf = Used(a),
                                !.th[t].n = r.n,
                                !.th[t].buf = SubSeq(r.buf, 1, r.n),
                                !.th[t].pc = "done"]
    /\ UNCHANGED <<fs, ret, ref, promotions, heap, reply, session>>

NextMT ==
    \E t \in Threads :
        \/ MT_WriteInner(t)
        \/ MT_Check(t)
        \/ MT_View(t)
        \/ MT_New(t)
        \/ MT_Open(t)
        \/ MT_Delete(t)
        \/ MT_Assign(t)
        \/ MT_Flag(t)
        \/ MT_Return(t)
        \/ MT_ReadInner(t)

SpecMT == InitMT /\ [][NextMT]_vars

\* The two requests run one after the other, first then second, on the
\* SpoolFile as constructed: what each returns.
SerialRun(init, first, second) ==
    LET c == SpoolFile_ctor("/hello", init, EmptyFs)
        s0 == [c.f EXCEPT !.spool_size = TestSpoolSize]
        call(f, d, q) == IF q.op = "write" THEN IOFile_write(f, d, q.buf, q.off)
                         ELSE IOFile_read(f, d, q.size, q.off, <<0>>)
        a == call(s0, c.fs, first)
        b == call(a.f, a.fs, second)
        out(q, r) == [n |-> r.n,
                      buf |-> IF q.op = "read" THEN SubSeq(r.buf, 1, r.n) ELSE <<>>]
    IN [first |-> out(first, a), second |-> out(second, b),
        abort |-> a.abort \/ b.abort]

Outcome(t) == [n |-> mt.th[t].n, buf |-> mt.th[t].buf]

----------------------------------------------------------------------------
(* SpecSteps: fuse_session_loop, the single-threaded loop: the same two     *)
(* requests, statement by statement, the second one after the first has     *)
(* returned.                                                                *)

\* the loop takes request t when the requests before it are done
Turn(t) == \A u \in Threads : u < t => mt.th[u].pc = "done"

NextSteps ==
    \E t \in Threads :
        \/ Turn(t) /\ MT_WriteInner(t)
        \/ Turn(t) /\ MT_Check(t)
        \/ Turn(t) /\ MT_View(t)
        \/ Turn(t) /\ MT_New(t)
        \/ Turn(t) /\ MT_Open(t)
        \/ Turn(t) /\ MT_Delete(t)
        \/ Turn(t) /\ MT_Assign(t)
        \/ Turn(t) /\ MT_Flag(t)
        \/ Turn(t) /\ MT_Return(t)
        \/ Turn(t) /\ MT_ReadInner(t)

SpecSteps == InitMT /\ [][NextSteps]_vars

----------------------------------------------------------------------------
(* SpecScratch: two objects, DiskFile or SpoolFile, constructed and         *)
(* destroyed in any order on logical paths that may be equal or hash alike, *)
(* as y("/hello") and z("/hello") of the test are. They share the scratch   *)
(* directory fs.                                                            *)

Slots == {1, 2}

ScratchInits == {BufInit(<<0>>), BufInit(<<1>>)}

ScratchBufs == {<<1>>}

ScratchOffs == {0, TestSpoolSize}

\* the first object is built on "/hello1", the second on the same path, on
\* one that hashes alike or on a different one
ScratchPaths(o) == IF o = 1 THEN {"/hello1"} ELSE Paths

InitScratch ==
    /\ files = <<Null, Null>>
    /\ fs = EmptyFs
    /\ proc = "running"
    /\ ret = NoRet
    /\ ref = <<<<>>, <<>>>>
    /\ promotions = <<0, 0>>
    /\ mt = NoThreads
    /\ heap = NoHeap
    /\ reply = NoReply
    /\ session = <<"closed", "closed">>

\* cls x(path, 15, S_IFREG | 0666, buf, size)
Construct(o, cls, path, init) ==
    /\ proc = "running"
    /\ files[o].cls = "null"
    /\ LET c == IOFile_ctor(cls, path, init, fs)
       IN /\ files' = [files EXCEPT ![o] = c.f]
          /\ fs' = c.fs
          /\ proc' = IF c.abort THEN "aborted" ELSE "running"
    /\ ret' = [NoRet EXCEPT !.op = "ctor", !.obj = o]
    /\ ref' = [ref EXCEPT ![o] = init.data]
    /\ UNCHANGED <<promotions, mt, heap, reply, session>>

\* ~SpoolFile() { delete _strategy; }  through an IOFile* whose class has no
\* virtual destructor: undefined, ~DiskFile may run (dtor) or not
SpoolFile_dtor(s, d, dtor) ==
    IF dtor /\ s.strategy.cls = "DiskFile" THEN DiskFile_dtor(s.strategy, d) ELSE d

\* the end of the object's lifetime; a destroyed object keeps, as a record of
\* what it was, the object it was
Destroy(o) ==
    /\ Live(o)
    /\ \E dtor \in BOOLEAN :
          /\ (files[o].cls # "SpoolFile") => dtor
          /\ fs' = CASE files[o].cls = "DiskFile" -> DiskFile_dtor(files[o], fs)
                     [] files[o].cls = "SpoolFile" -> SpoolFile_dtor(files[o], fs, dtor)
                     [] OTHER -> fs
    /\ files' = [files EXCEPT ![o] = [cls |-> "destroyed", was |-> files[o]]]
    /\ ret' = [NoRet EXCEPT !.op = "dtor", !.obj = o]
    /\ UNCHANGED <<proc, ref, promotions, mt, heap, reply, session>>

NextScratch ==
    \E o \in Slots :
        \/ \E cls \in {"DiskFile", "SpoolFile"}, path \in ScratchPaths(o),
                 init \in ScratchInits :
              Construct(o, cls, path, init)
        \/ Destroy(o)
        \/ Open(o)
        \/ Close(o)
        \/ \E buf \in ScratchBufs, off \in ScratchOffs : Write(o, buf, off)
        \/ SetSpoolSize(o, TestSpoolSize)

SpecScratch == InitScratch /\ [][NextScratch]_vars

----------------------------------------------------------------------------
(* SpecView: one object whose reads hand BufferViews to a caller that keeps *)
(* them, as test_io_file keeps `view` past file->close(). heap.allocs are   *)
(* the buffers DiskFile::read allocated with new char[size]; heap.views are *)
(* the BufferViews made so far, alive until their destructor runs.          *)

MaxViews == 2

\* BufferView(buf, size, delete_on_destroy), for a read on object o: an
\* owning view points into the allocation the read made, a borrowed one
\* (alloc 0) into the blob of o
BufferView_ctor(h, o, cls, r) ==
    IF r.owns
    THEN [allocs |-> Append(h.allocs, [data |-> r.buf, released |-> 0,
                                       mismatched |-> FALSE]),
          views |-> Append(h.views, [src |-> o, cls |-> cls, n |-> r.n,
                                     alloc |-> Len(h.allocs) + 1,
                                     owns |-> TRUE, alive |-> TRUE])]
    ELSE [h EXCEPT !.views = Append(@, [src |-> o, cls |-> cls, n |-> r.n,
                                        alloc |-> 0, owns |-> FALSE,
                                        alive |-> TRUE])]

\* sfs::IOFile::BufferView view = file->read(size, off);
ReadView(o, size, off) ==
    /\ Live(o)
    /\ Len(heap.views) < MaxViews
    /\ \E junk \in Junks(o, size, off) :
          LET r == IOFile_read(files[o], fs, size, off, junk)
          IN /\ Apply("read", o, size, off, r)
             /\ heap' = IF r.abort THEN heap
                        ELSE BufferView_ctor(heap, o, Backend(files[o]).cls, r)
    /\ UNCHANGED <<ref, promotions, reply>>

\* ~BufferView() { if (_delete_on_destroy) { delete _buf; } }
\* _buf came from new char[size]; releasing it with delete instead of
\* delete[] is undefined: the build either releases the array (released) or
\* its allocator is left in an undefined state (mismatched)
BufferView_dtor(h, i, released) ==
    LET v == h.views[i]
    IN IF ~v.owns THEN [h EXCEPT !.views[i].alive = FALSE]
       ELSE IF released
       THEN [h EXCEPT !.views[i].alive = FALSE,
                      !.allocs[v.alloc].released = @ + 1]
       ELSE [h EXCEPT !.views[i].alive = FALSE,
                      !.allocs[v.alloc].mismatched = TRUE]

\* the end of the lifetime of view i
DestroyView(i) ==
    /\ proc = "running"
    /\ i \in DOMAIN heap.views
    /\ heap.views[i].alive
    /\ \E released \in BOOLEAN :
          /\ ~heap.views[i].owns => released
          /\ heap' = BufferView_dtor(heap, i, released)
    /\ ret' = [NoRet EXCEPT !.op = "view_dtor", !.obj = i]
    /\ UNCHANGED <<files, fs, proc, ref, promotions, mt, reply, session>>

ViewReadSizes == {ALL, 1}

InitView ==
    \E cls \in {"MemoryFile", "DiskFile", "SpoolFile"} :
        \E init \in ScratchInits : Constructed(cls, init)

NextView ==
    \/ Open(1)
    \/ Close(1)
    \/ \E buf \in ScratchBufs, off \in ScratchOffs : Write(1, buf, off)
    \/ \E size \in ViewReadSizes : ReadView(1, size, 0)
    \/ \E i \in 1..MaxViews : DestroyView(i)
    \/ SetSpoolSize(1, TestSpoolSize)
    \/ Destroy(1)

SpecView == InitView /\ [][NextView]_vars

----------------------------------------------------------------------------
(* SpecFS: the request handlers of main.cpp on the inode table. files is    *)
(* the table: files[ino] is the entry with that inode, Null where there is  *)
(* none; inode 1 is the root directory. The class SpooledFS (get_by_inode,  *)
(* find_file_by_name, create_file) is not part of the sources and follows   *)
(* the description of the namespace.                                        *)

MaxInodes == 3

nullptr == 0

Inodes == 1..(MaxInodes + 1)

FsNames == {"/hello", "/hello1"}

FsBufs == {<<>>, <<1>>}

\* DirFile(fuse_path, fuse_inode, mode) : BaseFile(..., 4096)
DirFile_ctor(path) ==
    [cls |-> "DirFile", path |-> path, st_size |-> 4096, paths |-> <<>>]

\* _fuse_paths.push_back(fuse_path)
add_path(dir, fuse_path) == [dir EXCEPT !.paths = Append(@, fuse_path)]

\* get_by_inode(ino) -> optional File Entry
get_by_inode(ino) ==
    IF ino \in DOMAIN files /\ files[ino].cls # "null" THEN ino ELSE nullptr

\* the child of directory named name, none if there is no such child or the
\* entry is not a directory
find_file_by_name(directory, name) ==
    IF /\ files[directory].cls = "DirFile"
       /\ \E i \in DOMAIN files[directory].paths : files[directory].paths[i] = name
       /\ \E c \in DOMAIN files : files[c].cls # "null" /\ files[c].path = name
    THEN CHOOSE c \in DOMAIN files : files[c].cls # "null" /\ files[c].path = name
    ELSE nullptr

\* the next inode number: inodes are handed out in increasing order and
\* never reused; 0 when the table is full
NextInode ==
    IF \E i \in DOMAIN files : files[i].cls = "null"
    THEN CHOOSE i \in DOMAIN files :
            files[i].cls = "null" /\ \A j \in 1..(i - 1) : files[j].cls # "null"
    ELSE 0

\* create_file(parent_ino, name, mode) -> new inode | error
create_file(parent, name) ==
    CASE get_by_inode(parent) = nullptr ->
            [err |-> "NoSuchParent", ino |-> 0, files |-> files]
      [] get_by_inode(parent) # nullptr /\ files[parent].cls # "DirFile" ->
            [err |-> "NotADirectory", ino |-> 0, files |-> files]
      [] OTHER ->
            IF \E i \in DOMAIN files[parent].paths : files[parent].paths[i] = name
            THEN [err |-> "AlreadyExists", ino |-> 0, files |-> files]
            ELSE [err |-> "none", ino |-> NextInode,
                  files |-> [files EXCEPT
                      ![NextInode] = SpoolFile_ctor(name, NullInit, fs).f,
                      ![parent] = add_path(@, name)]]

\* &file->get_fuse_param()
get_fuse_param(ino) ==
    [ino |-> ino, st_size |-> files[ino].st_size,
     is_dir |-> files[ino].cls = "DirFile"]

Sent(handler, ino, name, replies) ==
    reply' = [handler |-> handler, ino |-> ino, name |-> name, sent |-> replies]

Err(e) == [kind |-> "err", val |-> e]

\* nothing but the reply: the request changed no state
ReplyOnly == UNCHANGED <<files, fs, proc, ret, ref, promotions, mt, heap, session>>

\* (IOFile *) of an entry that is a DirFile: the virtual call goes through
\* the vtable of a class that has no such slot, which is undefined: it
\* crashes, or it returns and the handler goes on to its reply
Miscast(handler, ino, replies) ==
    \E crash \in BOOLEAN :
        /\ proc' = IF crash THEN "aborted" ELSE proc
        /\ Sent(handler, ino, "", IF crash THEN <<>> ELSE replies)
        /\ ret' = [NoRet EXCEPT !.op = "miscast", !.obj = ino]
        /\ UNCHANGED <<files, fs, ref, promotions, mt, heap, session>>

\* sfs_lookup(req, parent, name)
sfs_lookup(parent, name) ==
    /\ proc = "running"
    /\ LET directory == get_by_inode(parent)
       IN IF directory = nullptr
          THEN Sent("sfs_lookup", parent, name, <<Err("ENOENT")>>)
          ELSE LET file == find_file_by_name(directory, name)
               IN IF file = nullptr
                  THEN Sent("sfs_lookup", parent, name, <<Err("ENOENT")>>)
                  ELSE Sent("sfs_lookup", parent, name,
                            <<[kind |-> "entry", val |-> get_fuse_param(file)]>>)
    /\ ReplyOnly

\* sfs_getattr(req, ino, fi)
sfs_getattr(ino) ==
    /\ proc = "running"
    /\ LET file == get_by_inode(ino)
       IN IF file = nullptr
          THEN Sent("sfs_getattr", ino, "", <<Err("ENOENT")>>)
          ELSE Sent("sfs_getattr", ino, "",
                    <<[kind |-> "entry", val |-> get_fuse_param(file)]>>)
    /\ ReplyOnly

\* the handler's call on the strategy of entry ino and the reply after it; a
\* failed assertion ends the process before the reply
Served(handler, op, ino, size, off, r, replies) ==
    /\ Apply(op, ino, size, off, r)
    /\ Sent(handler, ino, "", IF r.abort THEN <<>> ELSE replies)
    /\ UNCHANGED heap

\* sfs_open(req, ino, fi)
sfs_open(ino) ==
    /\ proc = "running"
    /\ LET file == get_by_inode(ino)
       IN IF file = nullptr
          THEN Sent("sfs_open", ino, "", <<Err("ENOENT")>>) /\ ReplyOnly
          ELSE IF files[file].cls = "DirFile"
          THEN Miscast("sfs_open", ino, <<[kind |-> "open", val |-> ino]>>)
          ELSE /\ Served("sfs_open", "open", ino, 0, 0, IOFile_open(files[file], fs),
                         <<[kind |-> "open", val |-> ino]>>)
               /\ UNCHANGED <<ref, promotions>>

\* sfs_release without `if (nullptr == file)`: close() through a null pointer
sfs_release_unchecked(ino) ==
    /\ proc = "running"
    /\ LET file == get_by_inode(ino)
       IN IF file = nullptr
          THEN /\ proc' = "aborted"
               /\ Sent("sfs_release", ino, "", <<>>)
               /\ UNCHANGED <<files, fs, ret, ref, promotions, mt, heap, session>>
          ELSE IF files[file].cls = "DirFile"
          THEN Miscast("sfs_release", ino, <<>>)
          ELSE /\ Served("sfs_release", "close", ino, 0, 0,
                         IOFile_close(files[file], fs), <<>>)
               /\ UNCHANGED <<ref, promotions>>

\* sfs_release(req, ino, fi)
sfs_release(ino) ==
    /\ proc = "running"
    /\ LET file == get_by_inode(ino)
       IN IF file = nullptr
          THEN Sent("sfs_release", ino, "", <<Err("ENOENT")>>) /\ ReplyOnly
          ELSE IF files[file].cls = "DirFile"
          THEN Miscast("sfs_release", ino, <<>>)
          ELSE /\ Served("sfs_release", "close", ino, 0, 0,
                         IOFile_close(files[file], fs), <<>>)
               /\ UNCHANGED <<ref, promotions>>

\* sfs_read(req, ino, size, off, fi)
sfs_read(ino, size, off) ==
    /\ proc = "running"
    /\ LET file == get_by_inode(ino)
       IN IF file = nullptr
          THEN Sent("sfs_read", ino, "", <<Err("ENOENT")>>) /\ ReplyOnly
          ELSE IF files[file].cls = "DirFile"
          THEN Miscast("sfs_read", ino, <<[kind |-> "buf", val |-> <<>>]>>)
          ELSE /\ \E junk \in Junks(file, size, off) :
                     LET r == IOFile_read(files[file], fs, size, off, junk)
                     IN Served("sfs_read", "read", ino, size, off, r,
                               <<[kind |-> "buf", val |-> SubSeq(r.buf, 1, r.n)]>>)
               /\ UNCHANGED <<ref, promotions>>

\* sfs_write(req, ino, buf, size, off, fi)
sfs_write(ino, buf, off) ==
    /\ proc = "running"
    /\ LET file == get_by_inode(ino)
       IN IF file = nullptr
          THEN Sent("sfs_write", ino, "", <<Err("ENOENT")>>) /\ ReplyOnly
          ELSE IF files[file].cls = "DirFile"
          THEN Miscast("sfs_write", ino, <<[kind |-> "write", val |-> Len(buf)]>>)
          ELSE LET r == IOFile_write(files[file], fs, buf, off)
               IN /\ Served("sfs_write", "write", ino, Len(buf), off, r,
                            <<[kind |-> "write", val |-> r.n]>>)
                  /\ ref' = IF r.abort THEN ref
                            ELSE [ref EXCEPT ![ino] = RefWrite(@, buf, off)]
                  /\ promotions' = IF r.promoted
                                   THEN [promotions EXCEPT ![ino] = @ + 1]
                                   ELSE promotions

\* sfs_create(req, parent, name, mode, fi): the handler calls create_file
\* and returns; it sends nothing
sfs_create(parent, name) ==
    /\ proc = "running"
    /\ LET c == create_file(parent, name)
       IN /\ c.err = "none" => c.ino # 0
          /\ files' = c.files
          /\ Sent("sfs_create", parent, name, <<>>)
          /\ ret' = [NoRet EXCEPT !.op = "create_file", !.obj = c.ino]
    /\ UNCHANGED <<fs, proc, ref, promotions, mt, heap, session>>

InitFS ==
    /\ files = <<DirFile_ctor("/")>> \o [i \in 1..(MaxInodes - 1) |-> Null]
    /\ fs = EmptyFs
    /\ proc = "running"
    /\ ret = NoRet
    /\ ref = [i \in 1..MaxInodes |-> <<>>]
    /\ promotions = [i \in 1..MaxInodes |-> 0]
    /\ mt = NoThreads
    /\ heap = NoHeap
    /\ reply = NoReply
    /\ session = [i \in 1..MaxInodes |-> "closed"]

NextFS ==
    \/ \E parent \in Inodes, name \in FsNames : sfs_lookup(parent, name)
    \/ \E ino \in Inodes : sfs_getattr(ino)
    \/ \E ino \in Inodes : sfs_open(ino)
    \/ \E ino \in Inodes : sfs_release(ino)
    \/ \E ino \in Inodes, size \in ViewReadSizes : sfs_read(ino, size, 0)
    \/ \E ino \in Inodes, buf \in FsBufs : sfs_write(ino, buf, 0)
    \/ \E parent \in Inodes, name \in FsNames : sfs_create(parent, name)

SpecFS == InitFS /\ [][NextFS]_vars

----------------------------------------------------------------------------
(* SpecTwin: two SpoolFiles built from the same content and given the same  *)
(* calls; object 1 has the threshold TestSpoolSize, object 2 keeps          *)
(* DefaultSpoolSize, which no size of this specification exceeds.           *)

InitTwin ==
    \E init \in {NullInit} \cup ScratchInits :
        LET a == SpoolFile_ctor("/hello", init, EmptyFs)
            b == SpoolFile_ctor("/hello1", init, a.fs)
        IN /\ files = <<[a.f EXCEPT !.spool_size = TestSpoolSize], b.f>>
           /\ fs = b.fs
           /\ proc = "running"
           /\ ret = <<NoRet, NoRet>>
           /\ ref = <<init.data, init.data>>
           /\ promotions = <<0, 0>>
           /\ mt = NoThreads
           /\ heap = NoHeap
           /\ reply = NoReply
           /\ session = <<"closed", "closed">>

\* the same call on both objects: r1 is what object 1 returned, r2 what
\* object 2 returned on the scratch directory object 1 left
Twin(op, size, off, r1, r2) ==
    /\ files' = <<r1.f, r2.f>>
    /\ fs' = r2.fs
    /\ proc' = IF r1.abort \/ r2.abort THEN "aborted" ELSE "running"
    /\ ret' = <<Returned(op, 1, size, off, r1), Returned(op, 2, size, off, r2)>>
    /\ session' = [o \in {1, 2} |->
                      SessionAfter(files[o].cls, session[o], op,
                                   IF o = 1 THEN r1.abort ELSE r2.abort)]
    /\ promotions' = [o \in {1, 2} |->
                         IF (IF o = 1 THEN r1.promoted ELSE r2.promoted)
                         THEN promotions[o] + 1 ELSE promotions[o]]
    /\ UNCHANGED <<mt, heap, reply>>

TwinOpen ==
    /\ proc = "running"
    /\ LET r1 == IOFile_open(files[1], fs)
       IN Twin("open", 0, 0, r1, IOFile_open(files[2], r1.fs))
    /\ UNCHANGED ref

TwinClose ==
    /\ proc = "running"
    /\ LET r1 == IOFile_close(files[1], fs)
       IN Twin("close", 0, 0, r1, IOFile_close(files[2], r1.fs))
    /\ UNCHANGED ref

TwinWrite(buf, off) ==
    /\ proc = "running"
    /\ LET r1 == IOFile_write(files[1], fs, buf, off)
       IN Twin("write", Len(buf), off, r1, IOFile_write(files[2], r1.fs, buf, off))
    /\ ref' = [o \in {1, 2} |-> RefWrite(ref[o], buf, off)]

TwinRead(size, off) ==
    /\ proc = "running"
    /\ \E j1 \in Junks(1, size, off), j2 \in Junks(2, size, off) :
          LET r1 == IOFile_read(files[1], fs, size, off, j1)
          IN Twin("read", size, off, r1, IOFile_read(files[2], r1.fs, size, off, j2))
    /\ UNCHANGED ref

NextTwin ==
    \/ TwinOpen
    \/ TwinClose
    \/ \E buf \in ScratchBufs, off \in ScratchOffs : TwinWrite(buf, off)
    \/ \E size \in ReadSizes : TwinRead(size, 0)

SpecTwin == InitTwin /\ [][NextTwin]_vars

----------------------------------------------------------------------------
(* SpecDir: one DirFile and the calls that register and remove children.    *)

MaxChildren == 3

ChildNames == {"/hello", "/hello1", "/hello2"}

\* std::find(_fuse_paths.begin(), _fuse_paths.end(), fuse_path): the index of
\* the first match, Len + 1 for end()
find(paths, fuse_path) ==
    IF \E i \in DOMAIN paths : paths[i] = fuse_path
    THEN CHOOSE i \in DOMAIN paths :
            paths[i] = fuse_path /\ \A j \in 1..(i - 1) : paths[j] # fuse_path
    ELSE Len(paths) + 1

\* bool remove_path(fuse_path): erases when find returned end(), which is
\* undefined for a vector: the build crashes ("crash"), drops the last
\* element ("last", what shifting the empty tail and shrinking by one does)
\* or leaves the list alone ("none"); when the name is found, nothing is
\* erased and false is returned
remove_path(dir, fuse_path, ub) ==
    LET iter == find(dir.paths, fuse_path)
    IN IF Len(dir.paths) + 1 = iter
       THEN CASE ub = "crash" \/ dir.paths = <<>> ->
                    [dir |-> dir, abort |-> TRUE, result |-> FALSE]
              [] ub = "last" /\ dir.paths # <<>> ->
                    [dir |-> [dir EXCEPT !.paths = SubSeq(@, 1, Len(@) - 1)],
                     abort |-> FALSE, result |-> TRUE]
              [] OTHER -> [dir |-> dir, abort |-> FALSE, result |-> TRUE]
       ELSE [dir |-> dir, abort |-> FALSE, result |-> FALSE]

\* directory.add_path(name)
AddPath(o, name) ==
    /\ proc = "running"
    /\ files[o].cls = "DirFile"
    /\ Len(files[o].paths) < MaxChildren
    /\ files' = [files EXCEPT ![o] = add_path(@, name)]
    /\ ret' = [op |-> "add_path", obj |-> o, name |-> name, result |-> TRUE,
               before |-> files[o].paths]
    /\ UNCHANGED <<fs, proc, ref, promotions, mt, heap, reply, session>>

\* directory.remove_path(name)
RemovePath(o, name) ==
    /\ proc = "running"
    /\ files[o].cls = "DirFile"
    /\ \E ub \in {"crash", "last", "none"} :
          LET r == remove_path(files[o], name, ub)
          IN /\ files' = [files EXCEPT ![o] = r.dir]
             /\ proc' = IF r.abort THEN "aborted" ELSE "running"
             /\ ret' = [op |-> "remove_path", obj |-> o, name |-> name,
                        result |-> r.result, before |-> files[o].paths]
    /\ UNCHANGED <<fs, ref, promotions, mt, heap, reply, session>>

InitDir ==
    /\ files = <<DirFile_ctor("/")>>
    /\ fs = EmptyFs
    /\ proc = "running"
    /\ ret = [op |-> "none", obj |-> 0, name |-> "", result |-> FALSE,
              before |-> <<>>]
    /\ ref = <<<<>>>>
    /\ promotions = <<0>>
    /\ mt = NoThreads
    /\ heap = NoHeap
    /\ reply = NoReply
    /\ session = <<"closed">>

NextDir ==
    \E name \in ChildNames :
        \/ AddPath(1, name)
        \/ RemovePath(1, name)

SpecDir == InitDir /\ [][NextDir]_vars

----------------------------------------------------------------------------
(* Observations used by the properties *)

\* the object can be read and written: a DiskFile needs its handle
Usable(f) == Backend(f).cls = "MemoryFile" \/ Backend(f).fh # 0

\* the bytes the backend holds: the blob, or the file behind the handle
Content(f, d) ==
    IF Backend(f).cls = "MemoryFile" THEN Backend(f).blob
    ELSE d.data[Backend(f).fh]

\* read(ALL, 0) on the object
ReadAll(f, d) == IOFile_read(f, d, ALL, 0, <<0>>)

\* the object holds content of length L: its reported size and its bytes agree
HoldsContent(f, d) == Usable(f) /\ get_size(Backend(f)) = Len(Content(f, d))

----------------------------------------------------------------------------
(* C1 (SpecDefault). Promotion preserves content: once a write has promoted *)
(* the SpoolFile, the backend is a DiskFile and, whenever the file can be   *)
(* read, read(ALL, 0) returns exactly the reference content of all writes   *)
(* so far (gaps zero); this stays so after every later write and across     *)
(* close/open.                                                              *)
C1_PromotionPreservesContent ==
    (proc = "running" /\ promotions[1] >= 1) =>
        /\ files[1].strategy.cls = "DiskFile"
        /\ Usable(files[1]) =>
              LET r == ReadAll(files[1], fs)
              IN ~r.abort /\ SubSeq(r.buf, 1, r.n) = ref[1]

(* C2 (SpecSpool). The size the SpoolFile itself reports (get_size(), the   *)
(* st_size of get_fuse_param()) equals the size its current inner strategy  *)
(* reports, after construction and after every completed write.             *)
C2_SpoolSizeIsInnerSize ==
    (proc = "running" /\ ret.op \in {"none", "write"}) =>
        get_size(files[1]) = get_size(files[1].strategy)

(* C3 (Spec). Gap zero-fill: on a MemoryFile or an open DiskFile holding    *)
(* content of length L, a write(buf, size, off) with off >= L leaves the    *)
(* reported size at off+size and read(ALL, 0) returning the old bytes, then *)
(* zeros up to off, then buf.                                               *)
C3_GapZeroFill ==
    [][\A buf \in Bufs, off \in Offs :
          (/\ proc = "running"
           /\ HoldsContent(files[1], fs)
           /\ off >= Len(Content(files[1], fs))
           /\ Write(1, buf, off))
          => LET r == ReadAll(files'[1], fs')
             IN /\ ~ret'.abort
                /\ get_size(files'[1]) = off + Len(buf)
                /\ ~r.abort
                /\ SubSeq(r.buf, 1, r.n)
                     = Content(files[1], fs)
                       \o Zeros(off - Len(Content(files[1], fs))) \o buf
    ]_vars

(* C4 (Spec). Overwrite within existing content: on a MemoryFile or an open *)
(* DiskFile holding content of length L, a write(buf, size, off) with       *)
(* off < L returns size, leaves the reported size at max(L, off+size), and  *)
(* read(ALL, 0) returns buf at [off, off+size) and every other old byte     *)
(* unchanged.                                                               *)
C4_Overwrite ==
    [][(/\ proc = "running"
        /\ ret'.op = "write"
        /\ HoldsContent(files[1], fs)
        /\ ret'.off < Len(Content(files[1], fs)))
       => \A buf \in [1..ret'.size -> Byte] :
             Write(1, buf, ret'.off)
             => LET r == ReadAll(files'[1], fs')
                    L == Len(Content(files[1], fs))
                    off == ret'.off
                IN /\ ~ret'.abort
                   /\ ret'.n = Len(buf)
                   /\ get_size(files'[1]) = Max(L, off + Len(buf))
                   /\ ~r.abort
                   /\ r.n = Max(L, off + Len(buf))
                   /\ SubSeq(r.buf, 1, r.n)
                        = [i \in 1..Max(L, off + Len(buf)) |->
                             IF i > off /\ i <= off + Len(buf) THEN buf[i - off]
                             ELSE Content(files[1], fs)[i]]
    ]_vars

\* a DiskFile write has replaced the tail of the content and extended it
C4_Witness ==
    /\ files[1].cls = "DiskFile"
    /\ ret.op = "write" /\ ~ret.abort
    /\ ret.off < ret.size0
    /\ ret.off + ret.n > ret.size0
    /\ get_size(files[1]) = ret.off + ret.n

(* C5 (Spec). Read-all sentinel: on a MemoryFile or an open DiskFile        *)
(* holding content of any length N >= 0, read(ALL, off) with any off        *)
(* completes and returns exactly the N bytes of the content.                *)
C5_ReadAll ==
    [][\A off \in Offs :
          (/\ proc = "running"
           /\ HoldsContent(files[1], fs)
           /\ Read(1, ALL, off))
          => /\ ~ret'.abort
             /\ ret'.n = Len(Content(files[1], fs))
             /\ SubSeq(ret'.buf, 1, ret'.n) = Content(files[1], fs)
    ]_vars

(* C6 (SpecDefault). Promotion is one-way and exactly-once: the promotion   *)
(* block runs at most once, never on a SpoolFile that is already on disk,   *)
(* and once the backend is a DiskFile it is a DiskFile in every later       *)
(* state.                                                                   *)
C6_PromotionOnce ==
    [][/\ promotions'[1] <= 1
       /\ files[1].strategy.cls = "DiskFile" =>
             /\ files'[1].strategy.cls = "DiskFile"
             /\ promotions'[1] = promotions[1]
    ]_vars

\* a promoted SpoolFile has taken a further write on its DiskFile
C6_Witness ==
    /\ promotions[1] = 1
    /\ ret.op = "write" /\ ~ret.abort
    /\ files[1].strategy.cls = "DiskFile"
    /\ files[1].strategy.current_offset > 0

(* C7 (SpecDefault). Threshold invariant: while the threshold is the one of *)
(* construction, between operations the backend is a MemoryFile only if the *)
(* inner size is <= the threshold, and an inner size above the threshold    *)
(* (from construction or from a write) means a DiskFile with the promoted   *)
(* flag set.                                                                *)
C7_Threshold ==
    (proc = "running" /\ files[1].spool_size = DefaultSpoolSize) =>
        /\ files[1].strategy.cls = "MemoryFile" =>
              get_size(files[1].strategy) <= files[1].spool_size
        /\ get_size(files[1].strategy) > files[1].spool_size =>
              files[1].strategy.cls = "DiskFile" /\ files[1].spooled
        /\ files[1].spooled <=> files[1].strategy.cls = "DiskFile"

\* a write has taken the inner size from within the threshold to above it
C7_Witness ==
    /\ files[1].spool_size = DefaultSpoolSize
    /\ ret.op = "write" /\ ~ret.abort
    /\ ret.size0 <= DefaultSpoolSize
    /\ get_size(files[1].strategy) > DefaultSpoolSize
    /\ files[1].spooled

(* C10 (Spec). Disk open/close protocol: a DiskFile is closed after         *)
(* construction; open on an open DiskFile, and close, read or write on a    *)
(* closed one, is refused without aborting the process and leaves the       *)
(* handle, cursor, size and content as they were.                           *)
C10_OpenCloseProtocol ==
    /\ files[1].cls = "DiskFile" => files[1].fh = 0
    /\ [][(/\ proc = "running"
           /\ files[1].cls = "DiskFile"
           /\ \/ files[1].fh # 0 /\ ret'.op = "open"
              \/ files[1].fh = 0 /\ ret'.op \in {"close", "read", "write"})
          => (proc' = "running" /\ files' = files /\ fs' = fs)
       ]_vars

(* C8 (SpecMT). Two requests on the same file that run concurrently, one of *)
(* them a write, behave as if serialized: no call goes through an inner     *)
(* strategy that was already released, the process does not die where the   *)
(* serial runs do not, and when both have replied their results are those   *)
(* of running them in one of the two orders.                                *)
C8_Serialized ==
    LET s12 == SerialRun(mt.init, mt.th[1].req, mt.th[2].req)
        s21 == SerialRun(mt.init, mt.th[2].req, mt.th[1].req)
    IN /\ ~mt.uaf
       /\ proc = "aborted" => (s12.abort \/ s21.abort)
       /\ (mt.th[1].pc = "done" /\ mt.th[2].pc = "done") =>
             \/ ~s12.abort /\ Outcome(1) = s12.first /\ Outcome(2) = s12.second
             \/ ~s21.abort /\ Outcome(2) = s21.first /\ Outcome(1) = s21.second

\* the object is backed by a DiskFile
DiskBacked(f) ==
    f.cls = "DiskFile" \/ (f.cls = "SpoolFile" /\ f.strategy.cls = "DiskFile")

(* C9 (SpecScratch). Scratch-file lifetime: from the end of its             *)
(* construction until its destruction, the scratch file of every            *)
(* Disk-backed strategy exists under its name and holds what was written    *)
(* through that strategy; after the destruction the file no longer exists.  *)
C9_ScratchLifetime ==
    proc = "running" =>
        \A o \in Slots :
            /\ (Live(o) /\ DiskBacked(files[o])) =>
                  LET p == Backend(files[o]).disk_path
                  IN /\ fs_exists(fs, p)
                     /\ fs.data[fs.names[p]] = ref[o]
            /\ (files[o].cls = "destroyed" /\ DiskBacked(files[o].was)
                /\ ret.op = "dtor" /\ ret.obj = o) =>
                  ~fs_exists(fs, Backend(files[o].was).disk_path)

(* C11 (SpecView). Buffer ownership: a view from a Memory read is borrowed  *)
(* and refers to no allocation; a view from a Disk read is owned and refers *)
(* to an allocation of its own, which is intact for as long as the view     *)
(* lives, whatever happens to the strategy, and has been released exactly   *)
(* once when the view is gone; a view from a Spool read has the ownership   *)
(* of the backend that was live at the read.                                *)
C11_BufferOwnership ==
    /\ \A i \in DOMAIN heap.views :
          LET v == heap.views[i]
          IN /\ v.cls = "MemoryFile" => (~v.owns /\ v.alloc = 0)
             /\ v.cls = "DiskFile" =>
                   /\ v.owns
                   /\ v.alloc \in DOMAIN heap.allocs
                   /\ \A j \in DOMAIN heap.views :
                         heap.views[j].alloc = v.alloc => j = i
                   /\ ~heap.allocs[v.alloc].mismatched
                   /\ heap.allocs[v.alloc].released = IF v.alive THEN 0 ELSE 1
                   /\ Len(heap.allocs[v.alloc].data) = v.n
    /\ \A a \in DOMAIN heap.allocs :
          \E i \in DOMAIN heap.views : heap.views[i].alloc = a

\* the request of handler step q asks for an inode, or for a name in a
\* parent, that the namespace does not hold
MissingEntry(q) ==
    \/ get_by_inode(q.ino) = nullptr
    \/ q.handler = "sfs_lookup" /\ find_file_by_name(q.ino, q.name) = nullptr

C13_KindCheckOnOpen ==
    [][reply'.handler = "sfs_open" /\ get_by_inode(reply'.ino) # nullptr
       => IF files[reply'.ino].cls = "DirFile"
          THEN reply'.sent = <<Err("NotAFile")>> /\ ret' = ret /\ proc' = "running"
          ELSE ret'.op = "open"]_vars

(* C14 (SpecFS). Every request is answered: a lookup, getattr, open, read,  *)
(* write or create request whose handler returns has been sent exactly one  *)
(* reply; a create is answered with the new entry or an error.              *)
C14_EveryRequestAnswered ==
    [][(/\ reply'.handler \in {"sfs_lookup", "sfs_getattr", "sfs_open",
                               "sfs_read", "sfs_write", "sfs_create"}
        /\ proc' = "running")
       => /\ Len(reply'.sent) = 1
          /\ reply'.handler = "sfs_create"
                => reply'.sent[1].kind \in {"entry", "err"}]_vars

\* what a caller sees of a call: whether it returned, the count, the bytes
Observable(r) == [failed |-> r.abort, n |-> r.n, bytes |-> SubSeq(r.buf, 1, Min(r.n, Len(r.buf)))]

(* C15 (SpecTwin). The Spool strategy never exposes which backend is live:  *)
(* a SpoolFile with threshold T and one that never promotes, started from   *)
(* the same content and given the same calls, return the same observable    *)
(* result for every call.                                                   *)
C15_BackendNotExposed ==
    Observable(ret[1]) = Observable(ret[2])

\* the names of list p without name
Without(p, name) == SelectSeq(p, LAMBDA x : x # name)

\* name is in list p
Has(p, name) == \E i \in DOMAIN p : p[i] = name

(* C16 (SpecDir). No duplicate children: after any sequence of add_path and *)
(* remove_path calls the child list of a directory holds no name more than  *)
(* once.                                                                    *)
C16_NoDuplicateChildren ==
    \A i, j \in DOMAIN files[1].paths :
        files[1].paths[i] = files[1].paths[j] => i = j

(* C20 (SpecDir). remove_path(name) removes name and returns true exactly   *)
(* when name was in the list before the call; when it was not, it returns   *)
(* false and leaves the list as it was; every other child name is kept.     *)
C20_RemovePath ==
    ret.op = "remove_path" =>
        /\ proc = "running"
        /\ ret.result = Has(ret.before, ret.name)
        /\ ~Has(files[1].paths, ret.name)
        /\ Without(files[1].paths, ret.name) = Without(ret.before, ret.name)

(* C17 (Spec). Disk size accounting matches the medium: after construction  *)
(* and after any open, write, read and close calls on a DiskFile, the size  *)
(* it reports is the length of its scratch file.                            *)
C17_DiskSizeIsFileLength ==
    (proc = "running" /\ files[1].cls = "DiskFile") =>
        /\ fs_exists(fs, files[1].disk_path)
        /\ get_size(files[1]) = Len(fs.data[fs.names[files[1].disk_path]])

(* C18 (SpecSpool). Promotion preserves the session's open/closed state:    *)
(* as long as open and close alternate starting with open, a promoted       *)
(* SpoolFile has its DiskFile open exactly when the session is open, and    *)
(* no open, write or close call fails, wherever the writes fall.            *)
C18_PromotionKeepsSession ==
    session[1] # "misused" =>
        /\ (proc = "running" /\ files[1].spooled) =>
              (session[1] = "open" <=> files[1].strategy.fh # 0)
        /\ ret.op \in {"open", "write", "close"} => ~ret.abort

\* the order of the statements of SpoolFile::write and read
StepOrder ==
    {<<"write_inner", "check">>, <<"check", "view">>, <<"check", "return">>,
     <<"view", "new">>, <<"new", "open">>, <<"open", "delete">>,
     <<"delete", "assign">>, <<"assign", "flag">>, <<"flag", "return">>,
     <<"return", "done">>, <<"read_inner", "done">>}

\* no request is inside SpoolFile::write or read
BetweenOperations ==
    \A t \in Threads : mt.th[t].pc \in {"write_inner", "read_inner", "done"}

\* what the step of thread t that leaves statement pc has to find and leave
StepDone(t, pc) ==
    LET old == files[1].strategy
        new == files'[2 + t]
        v == mt'.th[t].view
    IN CASE pc = "view" ->      \* (2) the whole Memory content, borrowed
               /\ files[old].cls = "MemoryFile" /\ old \notin mt.freed
               /\ ~v.owns /\ v.src = old
               /\ SubSeq(v.buf, 1, v.n) = files[old].blob
         [] pc = "new" ->       \* (3) the DiskFile, seeded from the view
               /\ old \notin mt.freed
               /\ new.cls = "DiskFile" /\ new.fh = 0
               /\ fs_exists(fs', new.disk_path)
               /\ fs'.data[fs'.names[new.disk_path]] = files[old].blob
         [] pc = "open" ->      \* (4) opened
               /\ old \notin mt.freed /\ new.fh # 0
         [] pc = "delete" ->    \* (5) the MemoryFile released
               /\ files[old].cls = "MemoryFile"
               /\ mt'.freed = mt.freed \cup {old} /\ files'[1] = files[1]
         [] pc = "assign" ->    \* (6) the reference replaced ...
               /\ old \in mt.freed
               /\ files'[1].strategy = 2 + t /\ (2 + t) \notin mt.freed
         [] pc = "flag" ->      \* ... and the flag set
               /\ ~files[1].spooled /\ files'[1].spooled
         [] OTHER -> TRUE

(* C19 (SpecSteps). Promotion step order: in a promoting write the inner    *)
(* write comes first, then the whole Memory content is read as a borrowed   *)
(* view, the DiskFile is constructed and seeded from it, opened, the        *)
(* MemoryFile released, the inner reference replaced and the flag set;      *)
(* nothing released is ever used, the view included; and between            *)
(* operations the SpoolFile holds a live inner strategy.                    *)
C19_PromotionStepOrder ==
    [][/\ \A t \in Threads :
             mt'.th[t].pc # mt.th[t].pc =>
                /\ <<mt.th[t].pc, mt'.th[t].pc>> \in StepOrder
                /\ StepDone(t, mt.th[t].pc)
       /\ ~mt'.uaf
       /\ BetweenOperations' =>
             /\ files'[1].strategy \notin mt'.freed
             /\ files'[files'[1].strategy].cls \in {"MemoryFile", "DiskFile"}]_vars

\* a promoting write has returned and the second request has run
C19_Witness ==
    /\ \A t \in Threads : mt.th[t].pc = "done"
    /\ files[1].spooled
    /\ mt.freed = {2}
    /\ files[1].strategy = 3

====
